---------------------------- MODULE Spec2Model ----------------------------
(***************************************************************************)
(* ATE preflight (src/ate_preflight.py, src/utils.py) as a state machine.  *)
(* One run of the script: the dependency presence check, seven requirement *)
(* checks in program order, the report, three port checks, termination.    *)
(* Text is modelled as TLA+ strings handled character by character, so the *)
(* parsers of the script are computed the way the script computes them.    *)
(***************************************************************************)
EXTENDS Integers, Sequences, FiniteSets, TLC

VARIABLES pc, failures, table, version, a, b, c, verdicts, port_table, stdout,
          exit_code, exc, calls

vars == <<pc, failures, table, version, a, b, c, verdicts, port_table, stdout,
          exit_code, exc, calls>>

---------------------------------------------------------------------------
(* Bounds of the model *)

\* largest processor count `grep -c` is made to report
MaxCores == 5
\* version tuples of the comparison specification: lengths 1..MaxLen
MaxLen == 2
\* version tuples of the comparison specification: components 0..MaxPart
MaxPart == 2

---------------------------------------------------------------------------
(* Configured expectations *)

DOCKER_LOGGING == "json-file"
MIN_DOCKER == "17.04"
MIN_COMPOSE == "1.11.0"
MIN_CORES == 4
MIN_RAM == 8000000
MIN_STORAGE == 1000000000
SELINUX_ENFORCEMENT == "Permissive"

---------------------------------------------------------------------------
(* Python values and outcomes *)

\* a Python str, int or None held in a variable or a table cell
PyStr(s) == [type |-> "str", val |-> s]
PyInt(n) == [type |-> "int", val |-> n]
None == [type |-> "NoneType"]

\* the outcome of a call: a returned value or a raised exception
Return(v) == [raised |-> "none", val |-> v]
Raise(e) == [raised |-> e]

---------------------------------------------------------------------------
(* Text primitives: str methods and int() *)

Ch(s, i) == SubSeq(s, i, i)

Digits == <<"0", "1", "2", "3", "4", "5", "6", "7", "8", "9">>

IsDigit(ch) == \E d \in 1..10 : Digits[d] = ch

DigitVal(ch) == (CHOOSE d \in 1..10 : Digits[d] = ch) - 1

\* the characters str.strip() and str.splitlines() treat specially
IsSpace(ch) == ch \in {" ", "\t", "\n", "\r", "\f"}

\* str.strip()
Strip(s) ==
  LET inner == {i \in 1..Len(s) : ~IsSpace(Ch(s, i))}
  IN  IF inner = {} THEN ""
      ELSE SubSeq(s, CHOOSE i \in inner : \A j \in inner : i <= j,
                     CHOOSE i \in inner : \A j \in inner : i >= j)

\* needle in hay
Contains(needle, hay) ==
  \E i \in 1..(Len(hay) - Len(needle) + 1) :
     SubSeq(hay, i, i + Len(needle) - 1) = needle

RECURSIVE SplitFrom(_, _, _, _)
SplitFrom(s, sep, i, start) ==
  IF i > Len(s) THEN <<SubSeq(s, start, Len(s))>>
  ELSE IF Ch(s, i) = sep
       THEN <<SubSeq(s, start, i - 1)>> \o SplitFrom(s, sep, i + 1, i + 1)
       ELSE SplitFrom(s, sep, i + 1, start)

\* str.split(sep) for a one-character separator
Split(s, sep) == SplitFrom(s, sep, 1, 1)

RECURSIVE DigitsValue(_, _)
DigitsValue(s, acc) ==
  IF s = "" THEN acc
  ELSE IF Ch(s, 1) = "_" THEN DigitsValue(SubSeq(s, 2, Len(s)), acc)
       ELSE DigitsValue(SubSeq(s, 2, Len(s)), 10 * acc + DigitVal(Ch(s, 1)))

\* int(str): surrounding whitespace, an optional sign, digits with single
\* underscores between them; anything else raises ValueError
int(s) ==
  LET t == Strip(s)
      signed == Len(t) > 0 /\ Ch(t, 1) \in {"+", "-"}
      body == IF signed THEN SubSeq(t, 2, Len(t)) ELSE t
      wellFormed ==
        /\ Len(body) > 0
        /\ IsDigit(Ch(body, 1))
        /\ IsDigit(Ch(body, Len(body)))
        /\ \A i \in 1..Len(body) : IsDigit(Ch(body, i)) \/ Ch(body, i) = "_"
        /\ \A i \in 1..(Len(body) - 1) : ~(Ch(body, i) = "_" /\ Ch(body, i + 1) = "_")
      magnitude == DigitsValue(body, 0)
  IN  IF ~wellFormed THEN Raise("ValueError")
      ELSE Return(IF signed /\ Ch(t, 1) = "-" THEN 0 - magnitude ELSE magnitude)

RECURSIVE str(_)
\* str(n) of an int
str(n) ==
  IF n < 0 THEN "-" \o str(0 - n)
  ELSE IF n < 10 THEN Digits[n + 1]
       ELSE str(n \div 10) \o Digits[(n % 10) + 1]

---------------------------------------------------------------------------
(* Pre-compiled regexes *)

\* the last index of the run of digits that starts at i
RECURSIVE DigitRunEnd(_, _)
DigitRunEnd(s, i) ==
  IF i < Len(s) /\ IsDigit(Ch(s, i + 1)) THEN DigitRunEnd(s, i + 1) ELSE i

\* j ends a run of digits: the end of the longest ".digits" chain after it
RECURSIVE ChainEnd(_, _)
ChainEnd(s, j) ==
  IF j + 2 <= Len(s) /\ Ch(s, j + 1) = "." /\ IsDigit(Ch(s, j + 2))
  THEN ChainEnd(s, DigitRunEnd(s, j + 2))
  ELSE j

\* RE_VERSION = (\d+\.)+\d+ matches at i: greedy, so the whole chain
VersionMatchesAt(s, i) ==
  /\ IsDigit(Ch(s, i))
  /\ ChainEnd(s, DigitRunEnd(s, i)) > DigitRunEnd(s, i)

\* RE_NUMERIC.finditer(s): the maximal runs of digits, left to right
RECURSIVE NumericRuns(_, _)
NumericRuns(s, i) ==
  IF i > Len(s) THEN <<>>
  ELSE IF IsDigit(Ch(s, i))
       THEN <<SubSeq(s, i, DigitRunEnd(s, i))>> \o NumericRuns(s, DigitRunEnd(s, i) + 1)
       ELSE NumericRuns(s, i + 1)

\* the last index of the run of spaces that starts at i
RECURSIVE SpaceRunEnd(_, _)
SpaceRunEnd(s, i) ==
  IF i < Len(s) /\ Ch(s, i + 1) = " " THEN SpaceRunEnd(s, i + 1) ELSE i

RECURSIVE SpaceSplitFrom(_, _, _)
SpaceSplitFrom(s, i, start) ==
  IF i > Len(s) THEN <<SubSeq(s, start, Len(s))>>
  ELSE IF Ch(s, i) = " "
       THEN <<SubSeq(s, start, i - 1)>>
            \o SpaceSplitFrom(s, SpaceRunEnd(s, i) + 1, SpaceRunEnd(s, i) + 1)
       ELSE SpaceSplitFrom(s, i + 1, start)

\* RE_SPACE.split(s), RE_SPACE = " +"
RE_SPACE_split(s) == SpaceSplitFrom(s, 1, 1)

---------------------------------------------------------------------------
(* More str methods used by the probes *)

RECURSIVE SplitLinesFrom(_, _, _)
SplitLinesFrom(s, i, start) ==
  IF i > Len(s)
  THEN IF start > Len(s) THEN <<>> ELSE <<SubSeq(s, start, Len(s))>>
  ELSE IF Ch(s, i) = "\r" /\ i < Len(s) /\ Ch(s, i + 1) = "\n"
       THEN <<SubSeq(s, start, i - 1)>> \o SplitLinesFrom(s, i + 2, i + 2)
       ELSE IF Ch(s, i) \in {"\n", "\r", "\f"}
            THEN <<SubSeq(s, start, i - 1)>> \o SplitLinesFrom(s, i + 1, i + 1)
            ELSE SplitLinesFrom(s, i + 1, start)

\* str.splitlines(): no empty last line after a final line break
splitlines(s) == SplitLinesFrom(s, 1, 1)

RECURSIVE replace(_, _, _)
\* str.replace(old, new), old not empty
replace(s, old, new) ==
  IF Len(s) < Len(old) THEN s
  ELSE IF SubSeq(s, 1, Len(old)) = old
       THEN new \o replace(SubSeq(s, Len(old) + 1, Len(s)), old, new)
       ELSE Ch(s, 1) \o replace(SubSeq(s, 2, Len(s)), old, new)

---------------------------------------------------------------------------
(* "Private" utility methods *)

RECURSIVE MapInt(_)
\* tuple(map(int, parts)): the first part that is no integer raises
MapInt(parts) ==
  IF parts = <<>> THEN Return(<<>>)
  ELSE LET head == int(parts[1])
           rest == MapInt(Tail(parts))
       IN  IF head.raised # "none" THEN head
           ELSE IF rest.raised # "none" THEN rest
                ELSE Return(<<head.val>> \o rest.val)

\* _version_tuple(str_): None has no split
_version_tuple(str_) ==
  IF str_.type # "str" THEN Raise("AttributeError")
  ELSE MapInt(Split(str_.val, "."))

\* _get_version(str_): the leftmost match of RE_VERSION, or None
_get_version(s) ==
  LET starts == {i \in 1..Len(s) : VersionMatchesAt(s, i)}
      first == CHOOSE i \in starts : \A j \in starts : i <= j
  IN  IF starts = {} THEN None
      ELSE PyStr(SubSeq(s, first, ChainEnd(s, DigitRunEnd(s, first))))

\* _strip_strings(row): strips the cells that are strings
_strip_strings(row) ==
  [i \in 1..Len(row) |->
     IF row[i].type = "str" THEN PyStr(Strip(row[i].val)) ELSE row[i]]

\* a mutant of _failures_plural: no singular
_failures_plural_Always(n) == "FAILURES"

_failures_plural(n) == IF n = 1 THEN "FAILURE" ELSE "FAILURES"

\* _gte(str_): the f-string formats an int as str() does
_gte(v) == ">= " \o (IF v.type = "int" THEN str(v.val) ELSE v.val)

\* round(num / 1_000_000): Python rounds halves to the even neighbour
RoundMillions(num) ==
  LET q == num \div 1000000
      r == num % 1000000
  IN  IF r < 500000 THEN q
      ELSE IF r > 500000 THEN q + 1
           ELSE IF q % 2 = 0 THEN q ELSE q + 1

RECURSIVE Grouped(_)
\* the "," format of a natural number: groups of three digits
Grouped(n) ==
  IF n < 1000 THEN str(n)
  ELSE Grouped(n \div 1000) \o ","
       \o Digits[((n % 1000) \div 100) + 1]
       \o Digits[((n % 100) \div 10) + 1]
       \o Digits[(n % 10) + 1]

\* _gb(num)
_gb(num) ==
  LET gb == RoundMillions(num)
  IN  (IF gb < 0 THEN "-" \o Grouped(0 - gb) ELSE Grouped(gb)) \o "GB"

\* a mutant of tuple_ge: > where the script has >=
RECURSIVE tuple_ge_Strict(_, _)
tuple_ge_Strict(x, y) ==
  IF x = <<>> THEN FALSE
  ELSE IF y = <<>> THEN TRUE
       ELSE IF x[1] # y[1] THEN x[1] > y[1]
            ELSE tuple_ge_Strict(Tail(x), Tail(y))

\* a mutant of tuple_ge: all(p >= q for p, q in zip(x, y))
tuple_ge_Zip(x, y) ==
  \A i \in 1..(IF Len(x) < Len(y) THEN Len(x) ELSE Len(y)) : x[i] >= y[i]

\* a >= b on tuples of ints: decided at the first position where they
\* differ, and by the lengths when one is a prefix of the other
RECURSIVE tuple_ge(_, _)
tuple_ge(x, y) ==
  IF y = <<>> THEN TRUE
  ELSE IF x = <<>> THEN FALSE
       ELSE IF x[1] # y[1] THEN x[1] > y[1]
            ELSE tuple_ge(Tail(x), Tail(y))

---------------------------------------------------------------------------
(* The commands and what they may answer *)

DockerHelp == "docker --help"
DockerInfo == "docker info --format '{{.LoggingDriver}}'"
DockerVersion == "docker --version"
ComposeVersion == "docker-compose --version"
Getenforce == "getenforce"
GrepCores == "grep -c ^processor /proc/cpuinfo"
Free == "free"
Df == "df"

\* the free table of the docstring of hardware_ram, with a total and a used
FreeTable(total, used, tail) ==
  "              total        used\nMem:  " \o total \o "   " \o used \o "\n" \o tail

Stdout(cmd) ==
  IF cmd = DockerHelp THEN {"Usage:\tdocker [OPTIONS] COMMAND\n"}
  ELSE IF cmd = DockerInfo THEN {"json-file\n", "journald\n"}
  ELSE IF cmd = DockerVersion THEN
    {"Docker version " \o major \o "." \o minor \o "\n" :
        major \in {"16", "17"}, minor \in {"3", "04", "99"}}
    \cup {"Docker version 17.04.0-ce, build 4845c56\n",
          "Docker version 17\n",
          "Cannot connect to the Docker daemon\n"}
  ELSE IF cmd = ComposeVersion THEN
    {"docker-compose version 1.11.0, build 6de1806\n",
     "docker-compose version 1.9.0, build 2585387\n",
     "Docker Compose version v2.20.2\n",
     "docker-compose version 1.11\n",
     "docker-compose: no version\n"}
  ELSE IF cmd = Getenforce THEN {"Permissive\n", "Enforcing\n"}
  ELSE IF cmd = GrepCores THEN
    {str(n) \o "\n" : n \in (MIN_CORES - 1)..MaxCores} \cup {""}
  ELSE IF cmd = Free THEN
    {FreeTable("8007488", "2204612", "Swap:  0  0\n"),
     FreeTable("4046000", "2204612", "Swap:  0  0\n"),
     FreeTable("8007488", "1", "\n"),
     FreeTable("8007488", "-", "\n"),
     "total used\n8007488 2204612\n",
     "used total\n2204612 7999999\n\n",
     ""}
  ELSE IF cmd = Df THEN
    {"Filesystem 1K-blocks Used\n/dev/sda1 1024 500\n/dev/sdb1 2000000 1024\n",
     "Filesystem 1K-blocks Used\n/dev/sda1 1048576000 500\n",
     "df: no file systems processed\n"}
  ELSE {}

\* _run_sub(cmd): the response, or the exception subprocess.run or the
\* decoding of the output raises
_run_sub(cmd) ==
  {Return(out) : out \in Stdout(cmd)}
  \cup {Raise("FileNotFoundError"), Raise("UnicodeDecodeError")}

---------------------------------------------------------------------------
(* Hardware methods, as functions of the output of their command *)

hardware_cores(out) == int(out)

RECURSIVE FirstBadInt(_)
\* the dict comprehension calls int on every zipped value, in order
FirstBadInt(values) ==
  IF values = <<>> THEN Return(<<>>)
  ELSE IF int(values[1]).raised # "none" THEN int(values[1])
       ELSE FirstBadInt(Tail(values))

hardware_ram(out) ==
  LET stripped == [i \in 1..Len(splitlines(replace(out, "Mem:", ""))) |->
                     Strip(splitlines(replace(out, "Mem:", ""))[i])]
      free == SubSeq(stripped, 1, Len(stripped) - 1)
      keys == RE_SPACE_split(free[1])
      values == RE_SPACE_split(free[2])
      n == IF Len(keys) < Len(values) THEN Len(keys) ELSE Len(values)
      totals == {i \in 1..n : keys[i] = "total"}
      last == CHOOSE i \in totals : \A j \in totals : i >= j
  IN  IF stripped = <<>> THEN Raise("IndexError")
      ELSE IF Len(free) < 2 THEN Raise("IndexError")
      ELSE IF FirstBadInt(SubSeq(values, 1, n)).raised # "none"
           THEN Raise("ValueError")
           ELSE IF totals = {} THEN Raise("KeyError")
                ELSE int(values[last])

RECURSIVE MaxInt(_)
MaxInt(runs) ==
  IF Len(runs) = 1 THEN int(runs[1]).val
  ELSE LET m == MaxInt(Tail(runs))
       IN  IF int(runs[1]).val >= m THEN int(runs[1]).val ELSE m

hardware_storage(out) ==
  IF NumericRuns(out, 1) = <<>> THEN Raise("ValueError")
  ELSE Return(MaxInt(NumericRuns(out, 1)))

---------------------------------------------------------------------------
(* Checking ports *)

\* the ports dict, in insertion order
ports == <<[name |-> "SSH", port |-> 22],
           [name |-> "HTTP", port |-> 80],
           [name |-> "HTTPS", port |-> 443]>>

\* port_open(port): what connect_ex may return, 0 or an errno
port_open(port) == {0, 111}

---------------------------------------------------------------------------
(* The script: state after `failures = 0`, one action per step of __main__ *)

Verdict(passed) == IF passed THEN "Passed" ELSE "FAILED"

Text(s) == [kind |-> "text", body |-> s]
Drawn(rows) == [kind |-> "table", body |-> rows]

Init ==
  /\ pc = "docker_installed"
  /\ failures = 0
  /\ table = <<>>
  /\ version = None
  /\ a = <<>>
  /\ b = <<>>
  /\ c = <<>>
  /\ verdicts = <<>>
  /\ port_table = <<>>
  /\ stdout = <<>>
  /\ exit_code = -1
  /\ exc = "none"
  /\ calls = <<>>

\* _run_sub(cmd) was called and ended as resp says
Called(cmd, resp) ==
  calls' = Append(calls, [cmd |-> cmd,
                          result |-> IF resp.raised = "none" THEN "ok" ELSE resp.raised,
                          out |-> IF resp.raised = "none" THEN resp.val ELSE ""])

\* an exception nobody catches: traceback on stderr, exit status 1
Crash(e) == pc' = "terminated" /\ exit_code' = 1 /\ exc' = e

Continue(next) == pc' = next /\ UNCHANGED <<exit_code, exc>>

\* a mutant of AddRow: the FAILED branch forgets failures += 1
AddRow_NoCount(label, expected, actual, passed) ==
  /\ table' = Append(table, _strip_strings(<<PyStr(label), PyStr(expected), actual,
                                             PyStr(Verdict(passed))>>))
  /\ failures' = failures

\* row[-1] = "Passed", or "FAILED" and failures += 1; then
\* table.add_row(_strip_strings(row))
AddRow(label, expected, actual, passed) ==
  /\ table' = Append(table, _strip_strings(<<PyStr(label), PyStr(expected), actual,
                                             PyStr(Verdict(passed))>>))
  /\ failures' = IF passed THEN failures ELSE failures + 1

\* a mutant of docker_installed: the missing executable goes unnoticed
docker_installed_AlwaysTrue(resp) ==
  IF resp.raised \in {"none", "FileNotFoundError"} THEN Return(TRUE) ELSE resp

\* docker_installed(), given how _run_sub("docker --help") ended: False when
\* the executable was not found, any other exception passes through
docker_installed(resp) ==
  IF resp.raised = "FileNotFoundError" THEN Return(FALSE)
  ELSE IF resp.raised # "none" THEN resp
       ELSE Return(TRUE)

\* `if not docker_installed()`: the error and sys.exit(1), else the table
\* and its header row
Preflight ==
  /\ pc = "docker_installed"
  /\ \E resp \in _run_sub(DockerHelp) :
       /\ Called(DockerHelp, resp)
       /\ IF docker_installed(resp) = Return(FALSE)
          THEN /\ stdout' = Append(stdout, Text("ERROR: The Docker command is unavailable. "
                                     \o " " \o "Ensure that Docker is installed on the system."))
               /\ pc' = "terminated"
               /\ exit_code' = 1
               /\ UNCHANGED <<exc, table>>
          ELSE IF docker_installed(resp).raised # "none"
               THEN Crash(docker_installed(resp).raised) /\ UNCHANGED <<stdout, table>>
               ELSE /\ table' = <<<<PyStr("Requirement"), PyStr("Expected"),
                                    PyStr("Actual"), PyStr("Passed?")>>>>
                    /\ Continue("docker_json")
                    /\ UNCHANGED stdout
  /\ UNCHANGED <<failures, version, a, b, c, verdicts, port_table>>

\* a requirement decided by `expected in <output>`
ContainmentCheck(cmd, label, expected, next) ==
  \E resp \in _run_sub(cmd) :
     /\ Called(cmd, resp)
     /\ IF resp.raised # "none"
        THEN Crash(resp.raised) /\ UNCHANGED <<failures, table>>
        ELSE /\ AddRow(label, expected, PyStr(resp.val), Contains(expected, resp.val))
             /\ Continue(next)
     /\ UNCHANGED <<version, a, b, c, verdicts, port_table, stdout>>

\* a requirement decided by a >= b on version tuples
VersionCheck(cmd, label, minimum, next) ==
  \E resp \in _run_sub(cmd) :
     /\ Called(cmd, resp)
     /\ IF resp.raised # "none"
        THEN Crash(resp.raised) /\ UNCHANGED <<failures, table, version, a, b>>
        ELSE /\ version' = _get_version(resp.val)
             /\ IF _version_tuple(_get_version(resp.val)).raised # "none"
                THEN /\ Crash(_version_tuple(_get_version(resp.val)).raised)
                     /\ UNCHANGED <<failures, table, a, b>>
                ELSE /\ a' = _version_tuple(_get_version(resp.val)).val
                     /\ b' = _version_tuple(PyStr(minimum)).val
                     /\ AddRow(label, _gte(PyStr(minimum)), _get_version(resp.val),
                               tuple_ge(_version_tuple(_get_version(resp.val)).val,
                                        _version_tuple(PyStr(minimum)).val))
                     /\ Continue(next)
     /\ UNCHANGED <<c, verdicts, port_table, stdout>>

\* the Actual cell of a threshold row: the int itself, or _gb of it
Shown(unit, n) == IF unit = "GB" THEN PyStr(_gb(n)) ELSE PyInt(n)

\* a requirement decided by >= on an int the probe parsed
ThresholdCheck(cmd, fact, label, expected, unit, minimum, next) ==
  \E resp \in _run_sub(cmd) :
     /\ Called(cmd, resp)
     /\ IF resp.raised # "none"
        THEN Crash(resp.raised) /\ UNCHANGED <<failures, table>>
        ELSE IF fact[resp.val].raised # "none"
             THEN Crash(fact[resp.val].raised) /\ UNCHANGED <<failures, table>>
             ELSE /\ AddRow(label, expected, Shown(unit, fact[resp.val].val),
                            fact[resp.val].val >= minimum)
                  /\ Continue(next)
     /\ UNCHANGED <<version, a, b, c, verdicts, port_table, stdout>>

\* a mutant of CheckDockerLogging: the Docker version block is missing
CheckDockerLogging_SkipsVersion ==
  /\ pc = "docker_json"
  /\ ContainmentCheck(DockerInfo, "Docker logging", DOCKER_LOGGING,
                      "docker_compose_version")

CheckDockerLogging ==
  /\ pc = "docker_json"
  /\ ContainmentCheck(DockerInfo, "Docker logging", DOCKER_LOGGING, "docker_version")

CheckDockerVersion ==
  /\ pc = "docker_version"
  /\ VersionCheck(DockerVersion, "Docker version", MIN_DOCKER, "docker_compose_version")

CheckComposeVersion ==
  /\ pc = "docker_compose_version"
  /\ VersionCheck(ComposeVersion, "Compose version", MIN_COMPOSE, "selinux_enforcement")

CheckSelinux ==
  /\ pc = "selinux_enforcement"
  /\ ContainmentCheck(Getenforce, "SELinux enforcement", SELINUX_ENFORCEMENT,
                      "hardware_cores")

CheckCores ==
  /\ pc = "hardware_cores"
  /\ ThresholdCheck(GrepCores, [o \in Stdout(GrepCores) |-> hardware_cores(o)],
                    "Hardware: CPU cores", _gte(PyInt(MIN_CORES)), "cores",
                    MIN_CORES, "hardware_ram")

CheckRam ==
  /\ pc = "hardware_ram"
  /\ ThresholdCheck(Free, [o \in Stdout(Free) |-> hardware_ram(o)],
                    "Hardware: RAM", _gte(PyStr(_gb(MIN_RAM))), "GB",
                    MIN_RAM, "hardware_storage")

CheckStorage ==
  /\ pc = "hardware_storage"
  /\ ThresholdCheck(Df, [o \in Stdout(Df) |-> hardware_storage(o)],
                    "Hardware: Storage", _gte(PyStr(_gb(MIN_STORAGE))), "GB",
                    MIN_STORAGE, "report")

\* what `if failures:` prints
Summary(n) ==
  IF n # 0
  THEN <<Text(""), Text(str(n) \o " " \o _failures_plural(n)),
         Text("Please contact Anaconda sales..."), Text("")>>
  ELSE <<>>

\* the requirements table, the summary, the heading and the empty port table
\* (the script binds its second Texttable to `table` again, line 304; here it
\* is port_table, and table keeps the requirement rows that were printed)
Report ==
  /\ pc = "report"
  /\ stdout' = stdout \o <<Text(""), Drawn(table)>> \o Summary(failures)
                      \o <<Text("========================"), Text(""),
                           Text("Port Information:"), Text("")>>
  /\ port_table' = <<>>
  /\ pc' = "ports"
  /\ UNCHANGED <<failures, table, version, a, b, c, verdicts, exit_code, exc, calls>>

\* a mutant of PortCheck: a closed port is counted as a failure
PortCheck_CountsClosed ==
  /\ pc = "ports"
  /\ Len(port_table) < Len(ports)
  /\ \E check \in port_open(ports[Len(port_table) + 1].port) :
       /\ port_table' = Append(port_table,
                          _strip_strings(<<PyStr(ports[Len(port_table) + 1].name),
                                           PyInt(ports[Len(port_table) + 1].port),
                                           PyStr(IF check = 0 THEN "Open" ELSE "Closed")>>))
       /\ failures' = IF check = 0 THEN failures ELSE failures + 1
  /\ UNCHANGED <<pc, table, version, a, b, c, verdicts, stdout, exit_code, exc, calls>>

\* one turn of `for name, port in ports.items()`
PortCheck ==
  /\ pc = "ports"
  /\ Len(port_table) < Len(ports)
  /\ \E check \in port_open(ports[Len(port_table) + 1].port) :
       port_table' = Append(port_table,
                       _strip_strings(<<PyStr(ports[Len(port_table) + 1].name),
                                        PyInt(ports[Len(port_table) + 1].port),
                                        PyStr(IF check = 0 THEN "Open" ELSE "Closed")>>))
  /\ UNCHANGED <<pc, failures, table, version, a, b, c, verdicts, stdout, exit_code,
                 exc, calls>>

\* the port table is printed and the script ends
Finish ==
  /\ pc = "ports"
  /\ Len(port_table) = Len(ports)
  /\ stdout' = stdout \o <<Drawn(port_table), Text("")>>
  /\ pc' = "terminated"
  /\ exit_code' = 0
  /\ UNCHANGED <<failures, table, version, a, b, c, verdicts, port_table, exc, calls>>

Next ==
  \/ Preflight
  \/ CheckDockerLogging
  \/ CheckDockerVersion
  \/ CheckComposeVersion
  \/ CheckSelinux
  \/ CheckCores
  \/ CheckRam
  \/ CheckStorage
  \/ Report
  \/ PortCheck
  \/ Finish

Spec == Init /\ [][Next]_vars

---------------------------------------------------------------------------
(* The comparison `a >= b` of lines 216 and 228 on its own: three version *)
(* tuples are drawn and compared pairwise                                *)

VersionTuples == UNION {[1..n -> 0..MaxPart] : n \in 1..MaxLen}

\* the three-way verdict that x >= y and y >= x give
compareVersions(x, y) ==
  IF tuple_ge(x, y)
  THEN IF tuple_ge(y, x) THEN "equal" ELSE "greater"
  ELSE IF tuple_ge(y, x) THEN "less" ELSE "unordered"

InitCmp ==
  /\ pc = "compare"
  /\ a \in VersionTuples
  /\ b \in VersionTuples
  /\ c \in VersionTuples
  /\ verdicts = <<>>
  /\ failures = 0
  /\ table = <<>>
  /\ version = None
  /\ port_table = <<>>
  /\ stdout = <<>>
  /\ exit_code = -1
  /\ exc = "none"
  /\ calls = <<>>

Compare ==
  /\ pc = "compare"
  /\ verdicts' = [ab |-> compareVersions(a, b),
                  bc |-> compareVersions(b, c),
                  ac |-> compareVersions(a, c)]
  /\ pc' = "compared"
  /\ UNCHANGED <<failures, table, version, a, b, c, port_table, stdout, exit_code,
                 exc, calls>>

NextCmp == Compare

SpecCmp == InitCmp /\ [][NextCmp]_vars

---------------------------------------------------------------------------
(* Properties *)

\* the rows of the requirements table, without the header row
RequirementRows == IF table = <<>> THEN <<>> ELSE Tail(table)

FailedRows == {i \in 1..Len(RequirementRows) : RequirementRows[i][4] = PyStr("FAILED")}
PassedRows == {i \in 1..Len(RequirementRows) : RequirementRows[i][4] = PyStr("Passed")}

\* the script printed its report and did not crash
Reported == pc = "ports" \/ (pc = "terminated" /\ exit_code = 0)

DockerAbsent == calls # <<>> /\ calls[1].result = "FileNotFoundError"

TablesPrinted == {i \in 1..Len(stdout) : stdout[i].kind = "table"}

\* C1: the failure counter equals the number of FAILED requirement rows in
\* every state, and every step that adds a requirement row adds exactly one,
\* either Passed with the counter unchanged or FAILED with the counter one
\* higher.
C1_FailureCount ==
  /\ [](failures = Cardinality(FailedRows))
  /\ [][(table # <<>> /\ table' # table) =>
          /\ Len(table') = Len(table) + 1
          /\ SubSeq(table', 1, Len(table)) = table
          /\ \/ table'[Len(table')][4] = PyStr("Passed") /\ failures' = failures
             \/ table'[Len(table')][4] = PyStr("FAILED") /\ failures' = failures + 1]_vars

\* three checks failed and four passed, and the counter is 3
C1_Witness ==
  /\ pc = "report"
  /\ Cardinality(FailedRows) = 3
  /\ Cardinality(PassedRows) = 4
  /\ failures = 3

\* C2: when the docker executable is not found the run is over at once with
\* a non-zero exit code: docker --help is the only command ever run, no
\* requirement row or table exists, the script is in none of its later
\* steps, and no table is printed.
C2_DockerAbsentIsFatal ==
  DockerAbsent =>
    /\ pc = "terminated"
    /\ exit_code # 0
    /\ exit_code # -1
    /\ Len(calls) = 1
    /\ table = <<>>
    /\ port_table = <<>>
    /\ failures = 0
    /\ TablesPrinted = {}

\* docker was not found and the script has exited with status 1
C2_Witness ==
  /\ DockerAbsent
  /\ exit_code = 1
  /\ Len(stdout) = 1
  /\ Contains("ERROR", stdout[1].body)

RequirementOrder ==
  <<"Docker logging", "Docker version", "Compose version", "SELinux enforcement",
    "Hardware: CPU cores", "Hardware: RAM", "Hardware: Storage">>

ProbeOrder ==
  <<DockerInfo, DockerVersion, ComposeVersion, Getenforce, GrepCores, Free, Df>>

\* the probes run so far, after the dependency check
ProbeCalls == IF calls = <<>> THEN <<>> ELSE Tail(calls)

\* C3: after the dependency check the probes run in the order logging mode,
\* Docker version, Compose version, enforcement mode, CPU cores, RAM, storage,
\* the rows of the requirements table are in that order, and a probe runs
\* only when the rows of all the probes before it are in the table; the
\* report is made with all seven rows.
C3_FixedOrder ==
  /\ Len(RequirementRows) <= Len(RequirementOrder)
  /\ \A i \in 1..Len(RequirementRows) : RequirementRows[i][1] = PyStr(RequirementOrder[i])
  /\ Len(ProbeCalls) <= Len(ProbeOrder)
  /\ \A i \in 1..Len(ProbeCalls) : ProbeCalls[i].cmd = ProbeOrder[i]
  /\ Len(ProbeCalls) \in {Len(RequirementRows), Len(RequirementRows) + 1}
  /\ Len(ProbeCalls) = Len(RequirementRows) + 1 => pc = "terminated" /\ exc # "none"
  /\ Reported \/ pc = "report" => Len(RequirementRows) = Len(RequirementOrder)

\* all seven checks are done, each with its row
C3_Witness ==
  /\ pc = "report"
  /\ Len(ProbeCalls) = 7
  /\ Len(RequirementRows) = 7
  /\ RequirementRows[7][1] = PyStr("Hardware: Storage")

\* the last command run was a version probe, it answered, and its output
\* holds no dotted number
VersionProbeFoundNone ==
  /\ calls # <<>>
  /\ calls[Len(calls)].cmd \in {DockerVersion, ComposeVersion}
  /\ calls[Len(calls)].result = "ok"
  /\ version = None

\* C4: when a version probe finds no dotted number in the output, the
\* requirement gets a FAILED row with the absent version, the counter goes
\* up, and the run goes on to the next check without an exception.
C4_AbsentVersionIsFailedRow ==
  VersionProbeFoundNone =>
    /\ exc = "none"
    /\ pc # "terminated"
    /\ Len(RequirementRows) = Len(ProbeCalls)
    /\ RequirementRows[Len(RequirementRows)][3] = None
    /\ RequirementRows[Len(RequirementRows)][4] = PyStr("FAILED")
    /\ failures >= 1

\* docker was found and every command that ran produced output
AllProbesAnswered == calls # <<>> /\ \A i \in 1..Len(calls) : calls[i].result = "ok"

\* C5: with docker present and every probe answering, a run that has ended
\* has processed all seven requirements, printed both tables and exited
\* with status zero.
C5_AlwaysCompletes ==
  (AllProbesAnswered /\ pc = "terminated") =>
    /\ exit_code = 0
    /\ exc = "none"
    /\ Len(RequirementRows) = 7
    /\ Cardinality(TablesPrinted) = 2

\* C6: no step of the port loop changes the failure counter or the
\* requirements table or what has been printed so far, the summary included;
\* the port steps only add to the port table and, at the end, to the output.
C6_PortsDoNotCount ==
  [][pc = "ports" =>
       /\ failures' = failures
       /\ table' = table
       /\ Len(stdout') >= Len(stdout)
       /\ SubSeq(stdout', 1, Len(stdout)) = stdout]_vars

\* every port was closed, no requirement failed, no summary was printed
C6_Witness ==
  /\ pc = "terminated"
  /\ exit_code = 0
  /\ Len(port_table) = 3
  /\ \A i \in 1..3 : port_table[i][3] = PyStr("Closed")
  /\ failures = 0
  /\ \A i \in 1..Len(stdout) :
         stdout[i].kind = "text" => ~Contains("FAILURE", stdout[i].body)

\* x >= y in the lexicographic order of integer tuples, said without
\* recursion: equal, or greater at the first position where they differ, a
\* proper prefix being the smaller
LexGE(x, y) ==
  \/ x = y
  \/ \E k \in 1..Len(x) :
       /\ \A i \in 1..(k - 1) : i <= Len(y) /\ x[i] = y[i]
       /\ k > Len(y) \/ x[k] > y[k]

\* the version a requirement row shows, the row's verdict
RowVersion(i) == RequirementRows[i][3].val
RowPassed(i) == RequirementRows[i][4] = PyStr("Passed")

\* the original C7: 17.04 and 17.3 pass against 17.04, and 16.99 fails
C7_Original ==
  Len(RequirementRows) >= 2 =>
    /\ RowVersion(2) = "17.04" => RowPassed(2)
    /\ RowVersion(2) = "17.3" => RowPassed(2)
    /\ RowVersion(2) = "16.99" => ~RowPassed(2)

\* C7 (amended): a version requirement passes iff the tuple of integers of
\* the actual version is equal to or greater than the tuple of the minimum,
\* component by component as numbers; against 17.04, 17.04 passes, 17.3
\* fails (3 < 4) and 16.99 fails.
C7_MeetsMinimum ==
  /\ Len(RequirementRows) >= 2 =>
       /\ RowPassed(2) <=> LexGE(_version_tuple(RequirementRows[2][3]).val, <<17, 4>>)
       /\ RowVersion(2) = "17.04" => RowPassed(2)
       /\ RowVersion(2) = "17.3" => ~RowPassed(2)
       /\ RowVersion(2) = "16.99" => ~RowPassed(2)
       /\ RowVersion(2) = "17.99" => RowPassed(2)
  /\ Len(RequirementRows) >= 3 =>
       RowPassed(3) <=> LexGE(_version_tuple(RequirementRows[3][3]).val, <<1, 11, 0>>)

\* Docker 17.3 was checked against 17.04 and the row says FAILED
C7_Witness ==
  /\ Len(RequirementRows) >= 2
  /\ RowVersion(2) = "17.3"
  /\ a = <<17, 3>>
  /\ b = <<17, 4>>
  /\ ~RowPassed(2)

\* the printed lines that are a failure summary
SummaryLines ==
  {i \in 1..Len(stdout) : stdout[i].kind = "text" /\ Contains("FAILURE", stdout[i].body)}

\* C8: nothing like a summary is printed before the report; in the report
\* the summary is printed iff the counter is above zero, two lines after the
\* requirements table, as "1 FAILURE" for one failure and "<N> FAILURES" for
\* two to seven.
C8_Summary ==
  IF ~Reported THEN SummaryLines = {}
  ELSE /\ stdout[2] = Drawn(table)
       /\ IF failures > 0
          THEN /\ SummaryLines = {4}
               /\ stdout[4].body = Digits[failures + 1] \o " FAILURE"
                                     \o (IF failures = 1 THEN "" ELSE "S")
          ELSE SummaryLines = {}

\* three checks failed, four passed, "3 FAILURES" was printed
C8_Witness ==
  /\ Reported
  /\ Cardinality(FailedRows) = 3
  /\ Cardinality(PassedRows) = 4
  /\ stdout[4] = Text("3 FAILURES")

\* outputs of free of the shape the claim speaks of: a header line with the
\* column total, the line of values right after it, and a blank line
ClaimedFreeTables ==
  {[out |-> FreeTable(total, used, "\n"), total |-> total] :
      total \in {"8007488", "4046000"}, used \in {"2204612", "1", "-"}}

\* C9: for an output of free made of a header line with the column total, a
\* values line and a blank line, the RAM probe returns the integer under
\* total whatever the other column holds: the RAM row is made from it.
C9_RamTotal ==
  \A t \in ClaimedFreeTables :
     (Len(ProbeCalls) >= 6 /\ ProbeCalls[6].result = "ok" /\ ProbeCalls[6].out = t.out) =>
        /\ Len(RequirementRows) >= 6
        /\ RequirementRows[6][1] = PyStr("Hardware: RAM")
        /\ RequirementRows[6][3] = PyStr(_gb(int(t.total).val))
        /\ RowPassed(6) <=> int(t.total).val >= MIN_RAM

\* C10: on version tuples of any lengths the comparison always gives one of
\* less, equal, greater, and greater is transitive.
C10_Transitive ==
  pc = "compared" =>
    /\ \A k \in {"ab", "bc", "ac"} : verdicts[k] \in {"less", "equal", "greater"}
    /\ (verdicts.ab = "greater" /\ verdicts.bc = "greater") => verdicts.ac = "greater"

\* a chain a > b > c through tuples of different lengths
C10_Witness ==
  /\ pc = "compared"
  /\ Len(a) # Len(b)
  /\ Len(b) # Len(c)
  /\ verdicts.ab = "greater"
  /\ verdicts.bc = "greater"
  /\ verdicts.ac = "greater"

====
